---- MODULE Spec2Model ----
(***************************************************************************)
(* Model of dashboard2/showq.py: the Sampler that takes periodic snapshots *)
(* of the running jobs (Sampler.sample), the Job / JobSample history it    *)
(* keeps, the pickled records it writes to the completed/ and running/     *)
(* stores, the running/timestamp marker, and the viewer-side               *)
(* Sampler.fetch_offline_samples that consumes the running/ store from a   *)
(* separate process.                                                       *)
(***************************************************************************)
EXTENDS Integers, Sequences, FiniteSets, TLC

\* ------------------------------------------------------------------ bounds
\* number of sample() calls of the sampler process
MaxCalls == 3
\* number of fetch_offline_samples() calls of the viewer process
MaxFetches == 2
\* number of samples of a Job handed to Job.pickle on its own
MaxSamples == 2
\* number of other jobs on the master host of a sample
MaxNeighbours == 2
\* number of samples of a job history shown by the finished-jobs viewer
MaxHistory == 7

\* ------------------------------------------------------- the environment
\* Job identifiers the scheduler may list, in the order showq lists them.
\* An identifier with a bracketed index is a sub-task of an array job.
NormalIds == <<"j1", "j2">>
ArrayIds == <<"j3[1]">>

\* '[' in jobid (showq.py line 845): strings are atomic here, so the test is
\* membership in the identifiers that carry a bracketed index.
IsArrayId(jobid) == \E i \in 1..Len(ArrayIds) : ArrayIds[i] = jobid

\* ShowqJobEntry.get_username: the '@User' attribute of the entry
UserOf(jobid) == IF jobid = "j1" THEN "alice" ELSE "bob"

\* ShowqJobEntry.get_mhost: the '@MasterHost' attribute, shortened
MHostOf(jobid) == IF IsArrayId(jobid) THEN "n02" ELSE "n01"

\* rules.the_rules: the fixed ordered rule list (ordinals 1..Len)
the_rules == <<"rule_effic", "rule_mem">>
RuleOrdinals == 1..Len(the_rules)

\* The sets of rule ordinals whose check() gives a message for a sample
MsgOptions == {{}, {2}}

\* Seconds between two readings of the clock by successive sample() calls
Delays == {30, 60}

\* the empty string '' where a timestamp is expected
NoTimestamp == 0 - 1

\* Data_qstat(jobid).is_interactive_job(): the job identifiers that qstat
\* reports as interactive sessions
VARIABLE interactive

\* The states showq reports for a job identifier besides Running
OtherStates(jobid) == IF jobid = "j1" THEN {"Idle"} ELSE {}

\* The entries showq can give for one job identifier: Running with each
\* outcome of the rules, not Running, or without a '@MasterHost'. msgs is what
\* the rules would report for a sample of the entry, interactive what qstat
\* says of the job.
EntryOptions(jobid) ==
    LET qstat == jobid \in interactive
    IN  IF IsArrayId(jobid)
        THEN {[jobid |-> jobid, mhost_known |-> TRUE, state |-> "Running", msgs |-> {},
               interactive |-> qstat]}
        ELSE {[jobid |-> jobid, mhost_known |-> TRUE, state |-> "Running", msgs |-> m,
               interactive |-> qstat] : m \in MsgOptions}
             \cup {[jobid |-> jobid, mhost_known |-> TRUE, state |-> st, msgs |-> {},
                     interactive |-> qstat] : st \in OtherStates(jobid)}
             \cup {[jobid |-> jobid, mhost_known |-> FALSE, state |-> "Running",
                     msgs |-> {}, interactive |-> qstat]}

\* All job lists over the identifiers ids[i..], each identifier at most once
RECURSIVE JobLists(_, _)
JobLists(ids, i) ==
    IF i > Len(ids) THEN {<<>>}
    ELSE LET rest == JobLists(ids, i + 1)
         IN  rest \cup {<<e>> \o r : e \in EntryOptions(ids[i]), r \in rest}

\* run_showq: the parsed showq output; has_list is FALSE when
\* data_showq['Data']['queue']['job'] does not exist, which is what a queue
\* without any job gives
RawSnapshots(ids) ==
    {[has_list |-> FALSE, job |-> <<>>]}
    \cup {[has_list |-> TRUE, job |-> l] : l \in JobLists(ids, 1) \ {<<>>}}

\* ------------------------------------------------------------- sequences
SeqToSet(s) == {s[i] : i \in 1..Len(s)}

RemoveAt(s, i) == SubSeq(s, 1, i - 1) \o SubSeq(s, i + 1, Len(s))

\* list.remove(x) inside try/except ValueError: the first x is removed
ListRemove(s, x) ==
    IF \E i \in 1..Len(s) : s[i] = x
    THEN RemoveAt(s, CHOOSE i \in 1..Len(s) :
                        s[i] = x /\ \A k \in 1..(i - 1) : s[k] # x)
    ELSE s

\* mycollections.od_add_list_item(od, key, item): append item to od[key]
od_add_list_item(od, key, item) ==
    IF key \in DOMAIN od
    THEN [od EXCEPT ![key] = Append(@, item)]
    ELSE [k \in DOMAIN od \cup {key} |-> IF k = key THEN <<item>> ELSE od[k]]

\* dict assignment d[key] = value
DictSet(d, key, value) ==
    [k \in DOMAIN d \cup {key} |-> IF k = key THEN value ELSE d[k]]

\* os.remove / dict.pop of a key
DictDel(d, key) == [k \in DOMAIN d \ {key} |-> d[k]]

EmptyDict == [k \in {} |-> 0]

\* --------------------------------------------------------------- the clock
\* get_timestamp_now: strftime('%Y.%m.%d.%Hh%M') of the current time, i.e. the
\* time cut to whole minutes
get_timestamp_now(seconds) == seconds \div 60

\* ------------------------------------------------------- Job and JobSample
\* JobSample.__init__: a fresh sample of job_entry, not yet checked
JobSample(job_entry, timestamp) ==
    [timestamp  |-> timestamp,
     msgs       |-> job_entry.msgs,
     data_qstat |-> [interactive |-> job_entry.interactive],
     parent_job |-> TRUE,
     checked    |-> FALSE,
     warnings   |-> <<>>,
     overview   |-> <<>>,
     neighbours |-> <<>>]

\* timestamp in job.samples
HasSample(job, timestamp) ==
    \E i \in 1..Len(job.samples) : job.samples[i].timestamp = timestamp

SampleIndex(job, timestamp) ==
    CHOOSE i \in 1..Len(job.samples) : job.samples[i].timestamp = timestamp

\* Job.timestamps: the keys of job.samples in insertion order
JobTimestamps(job) == [i \in 1..Len(job.samples) |-> job.samples[i].timestamp]

\* Job.add_sample: self.samples[timestamp] = JobSample(...). An OrderedDict
\* keeps the position of a key that exists and replaces its value.
add_sample(job, job_entry, timestamp) ==
    [job EXCEPT
       !.last_timestamp = timestamp,
       !.samples = IF HasSample(job, timestamp)
                   THEN [@ EXCEPT ![SampleIndex(job, timestamp)] =
                                      JobSample(job_entry, timestamp)]
                   ELSE Append(@, JobSample(job_entry, timestamp))]

\* Job.__init__
NewJob(timestamp, job_entry) ==
    add_sample([jobid     |-> job_entry.jobid,
                username  |-> UserOf(job_entry.jobid),
                mhost     |-> MHostOf(job_entry.jobid),
                sampler   |-> TRUE,
                nsamples_with_warnings |-> 0,
                warning_counts  |-> [r \in RuleOrdinals |-> 0],
                samples         |-> <<>>,
                first_timestamp |-> timestamp,
                last_timestamp  |-> NoTimestamp,
                jobscript       |-> FALSE,
                jobscript_loads |-> 0],
               job_entry, timestamp)

\* Sampler.jobs is a dict in insertion order: a sequence of Job records
HasJob(js, jobid) == \E i \in 1..Len(js) : js[i].jobid = jobid

JobIndex(js, jobid) == CHOOSE i \in 1..Len(js) : js[i].jobid = jobid

GetJob(js, jobid) == js[JobIndex(js, jobid)]

JobIdsOf(js) == {js[i].jobid : i \in 1..Len(js)}

\* NeighbouringJobInfo.__init__: one row per other job on the master host of
\* the sample. The sampler is reached through job_sample.parent_job.sampler
\* (line 487). sampler.jobs[jobid2] is looked up outside the try block, the
\* sample of job2 inside it (a missing sample gives a row of zeros).
NeighbouringJobInfo(js, mj, job, timestamp) ==
    IF ~job.samples[SampleIndex(job, timestamp)].parent_job
    THEN [error |-> "AttributeError: parent_job.sampler", rows |-> <<>>]
    ELSE IF ~job.sampler THEN [error |-> "AttributeError: job.sampler", rows |-> <<>>]
    ELSE IF job.mhost \notin DOMAIN mj THEN [error |-> "KeyError: mhost_jobs[mhost]", rows |-> <<>>]
    ELSE LET others == SelectSeq(mj[job.mhost], LAMBDA id : id # job.jobid)
         IN  IF \E k \in 1..Len(others) : ~HasJob(js, others[k])
             THEN [error |-> "KeyError: jobs[jobid2]", rows |-> <<>>]
             ELSE [error |-> "",
                   rows  |-> [k \in 1..Len(others) |->
                               [jobid |-> others[k],
                                info  |-> HasSample(GetJob(js, others[k]), timestamp)]]]

\* the ordinals in msgs in rule order: the messages of rule.check(sample)
RECURSIVE RuleMessages(_, _)
RuleMessages(msgs, irule) ==
    IF irule > Len(the_rules) THEN <<>>
    ELSE (IF irule \in msgs THEN <<irule>> ELSE <<>>) \o RuleMessages(msgs, irule + 1)

\* a compose_overview that never gives a line
compose_overview_none(job, sample) == <<>>

\* JobSample.compose_overview: one line when the sample has warnings
compose_overview(job, sample) ==
    IF sample.warnings # <<>>
    THEN IF sample.overview # <<>> THEN sample.overview
         ELSE <<[jobid |-> job.jobid, username |-> job.username,
                 warnings |-> sample.warnings]>>
    ELSE <<>>

\* a check_for_issues that applies the rules to every sample
RulesApplyAlways(sample) == TRUE

\* JobSample.check_for_issues line 249: interactive jobs are ignored
RulesApply(sample) == ~sample.data_qstat.interactive

\* a check_for_issues that loads the job script at every sample with issues
JobscriptIsNoneAlways(job) == TRUE

\* line 640: if self.jobscript is None
JobscriptIsNone(job) == ~job.jobscript

\* Job.check_for_issues(timestamp) with JobSample.check_for_issues inlined:
\* the job after the call, the overview line ('' is <<>>), the exception raised
Job_check_for_issues(js, mj, job, timestamp) ==
    IF ~HasSample(job, timestamp)
    THEN [error |-> "KeyError: samples[timestamp]", job |-> job, overview_line |-> <<>>]
    ELSE
    LET i    == SampleIndex(job, timestamp)
        info == NeighbouringJobInfo(js, mj, job, timestamp)
        warnings == IF RulesApply(job.samples[i])
                    THEN RuleMessages(job.samples[i].msgs, 1)
                    ELSE <<>>
        counted  == [job EXCEPT
                       !.warning_counts = [r \in RuleOrdinals |->
                            IF r \in SeqToSet(warnings) THEN @[r] + 1 ELSE @[r]],
                       !.nsamples_with_warnings =
                            IF warnings # <<>> THEN @ + 1 ELSE @,
                       !.jobscript = IF warnings # <<>> THEN TRUE ELSE @,
                       !.jobscript_loads =
                            IF warnings # <<>> /\ JobscriptIsNone(job)
                            THEN @ + 1 ELSE @]
        checked  == [job.samples[i] EXCEPT
                       !.checked = TRUE, !.warnings = warnings,
                       !.neighbours = info.rows, !.overview = <<>>]
        line     == compose_overview(counted, checked)
    IN  IF info.error # ""
        THEN [error |-> info.error, job |-> job, overview_line |-> <<>>]
        ELSE [error |-> "",
              job   |-> [counted EXCEPT !.samples[i] = [checked EXCEPT !.overview = line]],
              overview_line |-> line]

\* ------------------------------------------------------------- Job.pickle
\* a pickle that ignores only_if_warnings
PickleWritesAlways(job, only_if_warnings) == TRUE

\* the guard of Job.pickle: (only_if_warnings and nsamples_with_warnings) or
\* not only_if_warnings
PickleWrites(job, only_if_warnings) ==
    (only_if_warnings /\ job.nsamples_with_warnings # 0) \/ ~only_if_warnings

\* a record name without the timestamp of the last sample
PickleNameShort(job, prefix) == <<job.username, job.jobid>>

\* the record name: '{user}_{jobid}.pickled.gz' under running, otherwise
\* '{user}_{jobid}_{last timestamp}.pickled.gz'
PickleName(job, prefix) ==
    IF prefix = "running"
    THEN <<job.username, job.jobid>>
    ELSE <<job.username, job.jobid, JobTimestamps(job)[Len(job.samples)]>>

\* what pickle.dump writes: the job with its upward references set to None
Pickled(job) ==
    [job EXCEPT !.sampler = FALSE,
                !.samples = [i \in 1..Len(job.samples) |->
                                [job.samples[i] EXCEPT !.parent_job = FALSE]]]

\* Job.pickle(prefix) on a store in which no reader sees the file half written
pickle(store, job, prefix, only_if_warnings) ==
    IF PickleWrites(job, only_if_warnings)
    THEN DictSet(store, PickleName(job, prefix), [job |-> Pickled(job), partial |-> FALSE])
    ELSE store

\* a pickle that leaves the upward references as it dumped them
RestoreReferencesNot(nulled, sampler) == nulled

\* Job.pickle lines 738-742: self.sampler is set to the saved reference again,
\* the parent_job of every sample to self
RestoreReferences(nulled, sampler) ==
    [nulled EXCEPT !.sampler = sampler,
                   !.samples = [i \in 1..Len(nulled.samples) |->
                                   [nulled.samples[i] EXCEPT !.parent_job = TRUE]]]

\* Job.pickle(prefix, only_if_warnings, compressed) as a whole: the exception
\* it raises, the store and the job in memory after the call. With
\* compressed=False line 727 reads fpath, which only line 724 assigns.
Job_pickle(store, job, prefix, only_if_warnings, compressed) ==
    IF ~PickleWrites(job, only_if_warnings)
    THEN [error |-> "", store |-> store, job |-> job]
    ELSE IF ~compressed
    THEN [error |-> "UnboundLocalError: fpath", store |-> store, job |-> job]
    ELSE [error |-> "",
          store |-> pickle(store, job, prefix, only_if_warnings),
          job   |-> RestoreReferences(Pickled(job), job.sampler)]

\* Job.pickle when pickle.dump (line 736) raises: the record is open and
\* partly written, the upward references were set to None at lines 730-734
\* and lines 738-745 are not reached
Job_pickle_dump_raises(store, job, prefix) ==
    [error |-> "Exception: pickle.dump",
     store |-> DictSet(store, PickleName(job, prefix),
                       [job |-> Pickled(job), partial |-> TRUE]),
     job   |-> Pickled(job)]

\* Job.remove_file: os.remove of the running record, a failure is only printed
remove_file(store, job) == DictDel(store, <<job.username, job.jobid>>)

\* ------------------------------------------------- Sampler.overview_list2str
\* position of a username in the sort order of str
UserRank(username) == IF username = "alice" THEN 1 ELSE 2

\* list.sort(key=overview_by_user, reverse=True): stable, descending by username
RECURSIVE SortByUser(_)
SortByUser(lines) ==
    IF lines = <<>> THEN <<>>
    ELSE LET top  == CHOOSE i \in 1..Len(lines) :
                        /\ \A k \in 1..Len(lines) :
                              UserRank(lines[k].username) <= UserRank(lines[i].username)
                        /\ \A k \in 1..(i - 1) :
                              UserRank(lines[k].username) < UserRank(lines[i].username)
         IN  <<lines[top]>> \o SortByUser(RemoveAt(lines, top))

\* Sampler.overview_list2str: the header figures and the sorted lines
overview_list2str(overview_list, n_jobs) ==
    [is_str |-> TRUE,
     n_well |-> n_jobs - Len(overview_list),
     n_jobs |-> n_jobs,
     lines  |-> SortByUser(overview_list)]

\* ---------------------------------------------- Sampler.sample: the filter
\* The loop over the raw entries. An entry without '@MasterHost' is skipped
\* (KeyError caught); for an entry with '[' in its jobid the print calls
\* get_jobid_long on the raw OrderedDict, which has no such method.
FilterError(job) ==
    IF \E i \in 1..Len(job) : job[i].mhost_known /\ IsArrayId(job[i].jobid)
    THEN "AttributeError: job_entry.get_jobid_long"
    ELSE ""

job_entries_filtered(job) ==
    SelectSeq(job, LAMBDA e : e.mhost_known /\ ~IsArrayId(e.jobid))

\* a host index that keeps the lists of the previous snapshot
IndexAtStartKept(previous) == previous

\* line 867: self.mhost_jobs = OrderedDict(), whatever the index held before
IndexAtStart(previous) == EmptyDict

\* the loop that builds mhost_jobs and jobids_running and strikes the listed
\* jobids from jobids_running_previous
RECURSIVE BuildMhostJobs(_, _, _)
BuildMhostJobs(entries, i, od) ==
    IF i > Len(entries) THEN od
    ELSE BuildMhostJobs(entries, i + 1,
                        od_add_list_item(od, MHostOf(entries[i].jobid), entries[i].jobid))

EntryIds(entries) == [i \in 1..Len(entries) |-> entries[i].jobid]

\* a reconciliation that waits before it calls a job finished
StrikeRunningGrace(previous, ids, i) == <<>>

RECURSIVE StrikeRunning(_, _, _)
StrikeRunning(previous, ids, i) ==
    IF i > Len(ids) THEN previous
    ELSE StrikeRunning(ListRemove(previous, ids[i]), ids, i + 1)

\* ------------------------------------------------------------------- state
VARIABLES
    \* configuration and environment
    offline,            \* Cfg.offline
    cluster,            \* the job identifiers showq can list
    now,                \* the wall clock [s]
    \* the sampler process: the Sampler object
    jobs, timestamps, timestamp_jobs, overviews,
    jobids_running_previous, jobids_running, mhost_jobs, n_entries,
    \* the sampler process: where sample() is, and its locals
    pc, crash, calls, job_entries, jobids_finished, timestamp, i_entry, overview,
    \* the file system of the cluster
    completed, running, marker,
    \* history (not program state): what the removal loop did, the snapshots taken
    finished_log, snapshots, jobs_at_start,
    \* the viewer process: its Sampler object and where fetch_offline_samples is
    v_pc, v_crash, v_fetches, v_timestamp, v_filenames, v_local,
    v_jobs, v_timestamps, v_timestamp_jobs, v_overviews, v_n_entries,
    \* history (not program state): the wait loop of this fetch found no marker
    v_waited,
    \* Job.pickle and unpickle called on their own: the uncompressed records
    \* (*.pickled) of the data directory, the Job in memory (a list of at most one)
    plain, g_job,
    \* history (not program state): the last call with its arguments and result,
    \* and for each record name the Job that was handed to pickle
    g_out, g_pickled,
    \* methods of JobSample and NeighbouringJobInfo called on their own: the
    \* figures of the jobs of a host, the JobSample, and (history) the last call
    \* with its result
    u_in, u_sample, u_out

samplerVars == <<jobs, timestamps, timestamp_jobs, overviews,
                 jobids_running_previous, jobids_running, mhost_jobs, n_entries>>
callVars == <<pc, crash, calls, job_entries, jobids_finished, timestamp, i_entry, overview>>
fsVars == <<completed, running, marker>>
histVars == <<finished_log, snapshots, jobs_at_start>>
gatewayVars == <<plain, g_job, g_out, g_pickled>>
unitVars == <<u_in, u_sample, u_out>>
envVars == <<offline, cluster, now, interactive, gatewayVars, unitVars>>
viewerVars == <<v_pc, v_crash, v_fetches, v_timestamp, v_filenames, v_local,
                v_jobs, v_timestamps, v_timestamp_jobs, v_overviews, v_n_entries,
                v_waited>>
vars == <<envVars, samplerVars, callVars, fsVars, histVars, viewerVars>>

NoMarker == [present |-> FALSE, content |-> NoTimestamp]

\* Sampler.__init__ and an empty data directory
InitSampler ==
    /\ now = 0
    /\ plain = EmptyDict
    /\ g_out = [op |-> "none"]
    /\ g_pickled = EmptyDict
    /\ u_out = [op |-> "none"]
    /\ jobs = <<>>
    /\ timestamps = <<>>
    /\ timestamp_jobs = EmptyDict
    /\ overviews = EmptyDict
    /\ jobids_running_previous = <<>>
    /\ jobids_running = <<>>
    /\ mhost_jobs = EmptyDict
    /\ n_entries = 0
    /\ pc = "idle"
    /\ crash = ""
    /\ calls = 0
    /\ job_entries = <<>>
    /\ jobids_finished = <<>>
    /\ timestamp = NoTimestamp
    /\ i_entry = 0
    /\ overview = <<>>
    /\ completed = EmptyDict
    /\ running = EmptyDict
    /\ marker = NoMarker
    /\ finished_log = <<>>
    /\ snapshots = <<>>
    /\ jobs_at_start = {}

InitViewer(start) ==
    /\ v_pc = start
    /\ v_crash = ""
    /\ v_fetches = 0
    /\ v_timestamp = NoTimestamp
    /\ v_filenames = <<>>
    /\ v_local = EmptyDict
    /\ v_jobs = <<>>
    /\ v_timestamps = <<>>
    /\ v_timestamp_jobs = EmptyDict
    /\ v_overviews = EmptyDict
    /\ v_n_entries = 0
    /\ v_waited = FALSE

\* the sampler process alone, online or offline
Init ==
    /\ offline \in BOOLEAN
    /\ cluster = NormalIds \o ArrayIds
    /\ interactive = {}
    /\ g_job = <<>>
    /\ InitSampler
    /\ u_in = <<>>
    /\ u_sample = <<>>
    /\ InitViewer("off")

\* an exit that comes after line 881
PreviousAtExitLate(previous, ids) == ids

\* lines 824-828: exit(0) comes before line 881 assigns jobids_running_previous
PreviousAtExit(previous, ids) == previous

\* ------------------------------------------------- Sampler.sample, step by step
\* lines 821-881: run showq, filter the entries, build mhost_jobs and
\* jobids_running, find the finished jobids. Nothing here is visible to
\* another process, so it is one step.
SampleStart ==
    /\ pc = "idle"
    /\ calls < MaxCalls
    /\ \E raw \in RawSnapshots(cluster) :
         LET entries == job_entries_filtered(raw.job)
             ids     == EntryIds(entries)
         IN  IF ~raw.has_list
             THEN /\ pc' = "exited"
                  /\ crash' = "exit(0)"
                  /\ jobids_running_previous' =
                        PreviousAtExit(jobids_running_previous, ids)
                  /\ UNCHANGED <<job_entries, jobids_finished, jobs, timestamps,
                                 timestamp_jobs, overviews, jobids_running,
                                 mhost_jobs, n_entries>>
             ELSE IF FilterError(raw.job) # ""
             THEN /\ pc' = "crashed"
                  /\ crash' = FilterError(raw.job)
                  /\ UNCHANGED <<job_entries, jobids_finished, samplerVars>>
             ELSE /\ pc' = "finish"
                  /\ crash' = ""
                  /\ job_entries' = entries
                  /\ n_entries' = Len(entries)
                  /\ mhost_jobs' = BuildMhostJobs(entries, 1, IndexAtStart(mhost_jobs))
                  /\ jobids_running' = ids
                  /\ jobids_finished' = StrikeRunning(jobids_running_previous, ids, 1)
                  /\ jobids_running_previous' = ids
                  /\ UNCHANGED <<jobs, timestamps, timestamp_jobs, overviews>>
    /\ calls' = calls + 1
    /\ timestamp' = NoTimestamp
    /\ i_entry' = 0
    /\ overview' = <<>>
    /\ jobs_at_start' = JobIdsOf(jobs)
    /\ UNCHANGED <<fsVars, finished_log, snapshots, envVars, viewerVars>>

\* lines 884-891, one turn of the loop: pop the finished job, pickle it to
\* completed/ (only_if_warnings defaults to True) and, offline, remove its
\* running record. A jobid that was never tracked is skipped.
FinishJob ==
    /\ pc = "finish"
    /\ jobids_finished # <<>>
    /\ LET jobid == Head(jobids_finished)
       IN  /\ jobids_finished' = Tail(jobids_finished)
           /\ IF HasJob(jobs, jobid)
              THEN LET job == GetJob(jobs, jobid)
                   IN  /\ jobs' = RemoveAt(jobs, JobIndex(jobs, jobid))
                       /\ completed' = pickle(completed, job, "completed/", TRUE)
                       /\ running' = IF offline THEN remove_file(running, job) ELSE running
                       /\ finished_log' = Append(finished_log,
                              [call   |-> calls,
                               jobid  |-> jobid,
                               nsamples_with_warnings |-> job.nsamples_with_warnings,
                               marker |-> marker.present,
                               marker_content |-> marker.content,
                               last_timestamp |-> job.last_timestamp,
                               records_written |->
                                   IF PickleWrites(job, TRUE) THEN 1 ELSE 0])
              ELSE UNCHANGED <<jobs, completed, running, finished_log>>
    /\ UNCHANGED <<timestamps, timestamp_jobs, overviews, jobids_running_previous,
                   jobids_running, mhost_jobs, n_entries, marker, snapshots, jobs_at_start,
                   pc, crash, calls, job_entries, timestamp, i_entry, overview,
                   envVars, viewerVars>>

\* lines 892-898: read the clock; offline, remove the marker of the previous
\* snapshot
BeginPasses ==
    /\ pc = "finish"
    /\ jobids_finished = <<>>
    /\ \E d \in Delays : now' = now + d
    /\ timestamp' = get_timestamp_now(now')
    /\ marker' = IF offline THEN NoMarker ELSE marker
    /\ i_entry' = 1
    /\ pc' = "pass1"
    /\ UNCHANGED <<offline, cluster, interactive, gatewayVars, unitVars, samplerVars,
                   crash, calls,
                   job_entries, jobids_finished, overview, completed, running,
                   histVars, viewerVars>>

\* a pass 1 that stops one entry early
Pass1DoneEarly == i_entry >= Len(job_entries)

\* the loop of pass 1 is over
Pass1Done == i_entry > Len(job_entries)

\* a pass 1 that leaves job.sampler as it finds it
RepairSamplerNot(job) == job

\* lines 925-927: if job.sampler is None: job.sampler = self
RepairSampler(job) == [job EXCEPT !.sampler = TRUE]

\* lines 902-927, one turn of pass 1: a Running entry gets a sample in a new
\* or in its tracked Job; an entry in another state is skipped
Pass1Step ==
    /\ pc = "pass1"
    /\ ~Pass1Done
    /\ LET job_entry == job_entries[i_entry]
           jobid     == job_entry.jobid
       IN  IF job_entry.state # "Running"
           THEN UNCHANGED <<timestamp_jobs, jobs>>
           ELSE /\ timestamp_jobs' = od_add_list_item(timestamp_jobs, timestamp, jobid)
                /\ jobs' = IF ~HasJob(jobs, jobid)
                           THEN Append(jobs, NewJob(timestamp, job_entry))
                           ELSE [jobs EXCEPT ![JobIndex(jobs, jobid)] =
                                   RepairSampler(add_sample(@, job_entry, timestamp))]
    /\ i_entry' = i_entry + 1
    /\ UNCHANGED <<timestamps, overviews, jobids_running_previous, jobids_running,
                   mhost_jobs, n_entries, pc, crash, calls, job_entries,
                   jobids_finished, timestamp, overview, fsVars, histVars,
                   envVars, viewerVars>>

\* the ids with a Running entry among the filtered entries
RunningIds(entries) ==
    {entries[i].jobid : i \in {k \in 1..Len(entries) : entries[k].state = "Running"}}

\* lines 943-945: pass 2 starts with an empty overview
Pass1End ==
    /\ pc = "pass1"
    /\ Pass1Done
    /\ pc' = "pass2"
    /\ overview' = <<>>
    /\ i_entry' = 1
    /\ snapshots' = Append(snapshots, [call |-> calls, timestamp |-> timestamp,
                                       running |-> RunningIds(job_entries)])
    /\ UNCHANGED <<samplerVars, crash, calls, job_entries, jobids_finished, timestamp,
                   fsVars, finished_log, jobs_at_start, envVars, viewerVars>>

\* lines 946-965, one turn of pass 2: check the rules of the i-th tracked job.
\* An exception of check_for_issues is caught nowhere. A job with an overview
\* line is, offline, pickled to running/: gzip.open truncates the record, the
\* dump and the close follow in PickleRunningClose.
Pass2Step ==
    /\ pc = "pass2"
    /\ i_entry <= Len(jobs)
    /\ LET res == Job_check_for_issues(jobs, mhost_jobs, jobs[i_entry], timestamp)
       IN  IF res.error # ""
           THEN /\ pc' = "crashed"
                /\ crash' = res.error
                /\ UNCHANGED <<jobs, overview, i_entry, running>>
           ELSE /\ jobs' = [jobs EXCEPT ![i_entry] = res.job]
                /\ crash' = ""
                /\ IF res.overview_line # <<>>
                   THEN /\ overview' = overview \o res.overview_line
                        /\ IF offline /\ PickleWrites(res.job, TRUE)
                           THEN /\ running' = DictSet(running, PickleName(res.job, "running"),
                                                  [job |-> Pickled(res.job), partial |-> TRUE])
                                /\ pc' = "pickle_running"
                                /\ i_entry' = i_entry
                           ELSE /\ pc' = "pass2"
                                /\ i_entry' = i_entry + 1
                                /\ UNCHANGED running
                   ELSE /\ pc' = "pass2"
                        /\ i_entry' = i_entry + 1
                        /\ UNCHANGED <<overview, running>>
    /\ UNCHANGED <<timestamps, timestamp_jobs, overviews, jobids_running_previous,
                   jobids_running, mhost_jobs, n_entries, calls, job_entries,
                   jobids_finished, timestamp, completed, marker, histVars,
                   envVars, viewerVars>>

\* Job.pickle lines 736-745: the dump is complete and the record is closed
PickleRunningClose ==
    /\ pc = "pickle_running"
    /\ LET res == Job_pickle(running, jobs[i_entry], "running", TRUE, TRUE)
       IN  /\ running' = res.store
           /\ jobs' = [jobs EXCEPT ![i_entry] = res.job]
    /\ pc' = "pass2"
    /\ i_entry' = i_entry + 1
    /\ UNCHANGED <<timestamps, timestamp_jobs, overviews, jobids_running_previous,
                   jobids_running, mhost_jobs, n_entries, crash, calls, job_entries, jobids_finished, timestamp,
                   overview, completed, marker, histVars, envVars, viewerVars>>

\* the loop of pass 2 is over; what follows depends on Cfg.offline (line 980)
Pass2End ==
    /\ pc = "pass2"
    /\ i_entry > Len(jobs)
    /\ pc' = IF offline THEN "marker_open" ELSE "set_overview"
    /\ UNCHANGED <<samplerVars, crash, calls, job_entries, jobids_finished, timestamp,
                   i_entry, overview, fsVars, histVars, envVars, viewerVars>>

\* line 982: open('running/timestamp','w') creates the marker, still empty
MarkerOpen ==
    /\ pc = "marker_open"
    /\ marker' = [present |-> TRUE, content |-> NoTimestamp]
    /\ pc' = "marker_close"
    /\ UNCHANGED <<samplerVars, crash, calls, job_entries, jobids_finished, timestamp,
                   i_entry, overview, completed, running, histVars, envVars, viewerVars>>

\* lines 983-984: the timestamp is written and the marker closed
MarkerClose ==
    /\ pc = "marker_close"
    /\ marker' = [present |-> TRUE, content |-> timestamp]
    /\ pc' = "set_overview"
    /\ UNCHANGED <<samplerVars, crash, calls, job_entries, jobids_finished, timestamp,
                   i_entry, overview, completed, running, histVars, envVars, viewerVars>>

\* line 985
SetOverview ==
    /\ pc = "set_overview"
    /\ overviews' = DictSet(overviews, timestamp, overview_list2str(overview, n_entries))
    /\ pc' = "append_timestamp"
    /\ UNCHANGED <<jobs, timestamps, timestamp_jobs, jobids_running_previous,
                   jobids_running, mhost_jobs, n_entries, crash, calls, job_entries,
                   jobids_finished, timestamp, i_entry, overview, fsVars, histVars,
                   envVars, viewerVars>>

\* lines 987-989: the timestamp is appended last and returned
AppendTimestamp ==
    /\ pc = "append_timestamp"
    /\ timestamps' = Append(timestamps, timestamp)
    /\ pc' = "idle"
    /\ UNCHANGED <<jobs, timestamp_jobs, overviews, jobids_running_previous,
                   jobids_running, mhost_jobs, n_entries, crash, calls, job_entries,
                   jobids_finished, timestamp, i_entry, overview, fsVars, histVars,
                   envVars, viewerVars>>

\* ------------------------------------------------------------- unpickle
\* an unpickle that does not set the upward references
unpickle_as_dumped(file, sampler) == [found |-> ~file.partial, job |-> file.job]

\* the return value None
NotFound == [found |-> FALSE, job |-> <<>>]

\* unpickle(fpath, sampler): None for a record that cannot be read (here: one
\* copied while it was being written); otherwise the job with its upward
\* references set again
unpickle(file, sampler) ==
    IF file.partial
    THEN NotFound
    ELSE [found |-> TRUE,
          job   |-> [file.job EXCEPT
                       !.sampler = sampler,
                       !.samples = [i \in 1..Len(file.job.samples) |->
                                       [file.job.samples[i] EXCEPT !.parent_job = TRUE]]]]

\* an unpickle without its try blocks
LoadErrorUncaught(exists, readable) ==
    IF exists /\ readable THEN "" ELSE "OSError"

\* unpickle lines 758-769: the exception that leaves the function when the
\* record is missing or cannot be read: none, the bare except gives job = None
LoadError(exists, readable) == ""

\* unpickle(fpath, sampler) for fpath = dir/stem+ext: with the suffix
\* .pickled.gz the compressed record is read, with .pickled the uncompressed
\* one, without suffix the first of the two that exists. gz and pl are the
\* compressed and the uncompressed records of the directory.
unpickle_fpath(gz, pl, fpath, sampler) ==
    LET try(store) ==
            IF fpath.stem \in DOMAIN store
            THEN [error |-> LoadError(TRUE, ~store[fpath.stem].partial)]
                     @@ unpickle(store[fpath.stem], sampler)
            ELSE [error |-> LoadError(FALSE, FALSE)] @@ NotFound
    IN  IF fpath.ext = ".pickled.gz" THEN try(gz)
        ELSE IF fpath.ext = ".pickled" THEN try(pl)
        ELSE IF fpath.stem \in DOMAIN gz THEN try(gz)
        ELSE IF fpath.stem \in DOMAIN pl THEN try(pl)
        ELSE [error |-> ""] @@ NotFound

\* ------------------------------------------- the viewer: fetch_offline_samples
\* a get_remote_timestamp whose cat never succeeds
get_remote_timestamp_failing == NoTimestamp

\* Sampler.get_remote_timestamp: the first line of running/timestamp, '' when
\* the marker is absent or still empty
get_remote_timestamp == IF marker.present THEN marker.content ELSE NoTimestamp

\* remote.glob('*.pickled.gz', 'data/jobmonitor/running/'): the record names
\* in the order of ls
RECURSIVE ListDir(_)
ListDir(names) ==
    IF names = {} THEN <<>>
    ELSE LET first == CHOOSE n \in names : \A m \in names : UserRank(n[1]) <= UserRank(m[1])
         IN  <<first>> \o ListDir(names \ {first})

\* the overview line '' of a sample without warnings, as an item of a list
EmptyLine == [jobid |-> "", username |-> "", warnings |-> <<>>]

\* the header text of an overview str, as an item of the list that
\* add_offline_job makes of it by split
HeaderLine == [jobid |-> "Jobs", username |-> "running", warnings |-> <<>>]

AsLine(overview_line) == IF overview_line = <<>> THEN EmptyLine ELSE overview_line[1]

\* Sampler.add_offline_job, the turn of its loop for one sample
AddOfflineSample(tj_ov, job, sample) ==
    LET line == AsLine(compose_overview(job, sample))
        ov   == tj_ov.overviews
        t    == sample.timestamp
    IN  [timestamp_jobs |-> od_add_list_item(tj_ov.timestamp_jobs, t, job.jobid),
         overviews |->
            IF t \notin DOMAIN ov
            THEN DictSet(ov, t, [is_str |-> FALSE, n_well |-> 0, n_jobs |-> 0,
                                 lines |-> <<line>>])
            ELSE IF ov[t].is_str
            THEN DictSet(ov, t, [is_str |-> FALSE, n_well |-> 0, n_jobs |-> 0,
                                 lines |-> <<HeaderLine>> \o ov[t].lines \o <<line>>])
            ELSE [ov EXCEPT ![t].lines = Append(@, line)]]

RECURSIVE AddOfflineSamples(_, _, _)
AddOfflineSamples(tj_ov, job, i) ==
    IF i > Len(job.samples) THEN tj_ov
    ELSE AddOfflineSamples(AddOfflineSample(tj_ov, job, job.samples[i]), job, i + 1)

\* self.jobs[job.jobid] = job
SetJob(js, job) ==
    IF HasJob(js, job.jobid) THEN [js EXCEPT ![JobIndex(js, job.jobid)] = job]
    ELSE Append(js, job)

\* lines 1021-1023: empty the local copy of running/
FetchStart ==
    /\ v_pc = "idle"
    /\ v_fetches < MaxFetches
    /\ v_fetches' = v_fetches + 1
    /\ v_local' = EmptyDict
    /\ v_timestamp' = NoTimestamp
    /\ v_pc' = "poll"
    /\ v_waited' = FALSE
    /\ UNCHANGED <<v_crash, v_filenames, v_jobs, v_timestamps, v_timestamp_jobs,
                   v_overviews, v_n_entries,
                   envVars, samplerVars, callVars, fsVars, histVars>>

\* lines 1024-1027: the marker is absent (or empty): sleep and ask again
PollEmpty ==
    /\ v_pc = "poll"
    /\ get_remote_timestamp = NoTimestamp
    /\ v_timestamp' = get_remote_timestamp
    /\ v_waited' = TRUE
    /\ UNCHANGED <<v_pc, v_crash, v_fetches, v_filenames, v_local, v_jobs, v_timestamps,
                   v_timestamp_jobs, v_overviews, v_n_entries,
                   envVars, samplerVars, callVars, fsVars, histVars>>

\* lines 1024-1031: the marker holds a timestamp; return when it is the last
\* one known, otherwise append it
PollFound ==
    /\ v_pc = "poll"
    /\ get_remote_timestamp # NoTimestamp
    /\ v_timestamp' = get_remote_timestamp
    /\ IF v_timestamps # <<>> /\ get_remote_timestamp = v_timestamps[Len(v_timestamps)]
       THEN /\ v_pc' = "idle"
            /\ UNCHANGED v_timestamps
       ELSE /\ v_pc' = "glob"
            /\ v_timestamps' = Append(v_timestamps, get_remote_timestamp)
    /\ UNCHANGED <<v_crash, v_fetches, v_filenames, v_local, v_jobs,
                   v_timestamp_jobs, v_overviews, v_n_entries, v_waited,
                   envVars, samplerVars, callVars, fsVars, histVars>>

\* lines 1032-1033: list the records of running/
Glob ==
    /\ v_pc = "glob"
    /\ v_filenames' = ListDir(DOMAIN running)
    /\ v_n_entries' = 0
    /\ v_pc' = "copy"
    /\ UNCHANGED <<v_crash, v_fetches, v_timestamp, v_local, v_jobs, v_timestamps,
                   v_timestamp_jobs, v_overviews, v_waited,
                   envVars, samplerVars, callVars, fsVars, histVars>>

\* lines 1034-1048, one turn of the loop: copy the record as it is now (a
\* record removed since the listing fails to copy and is skipped), unpickle
\* the copy and add the job. add_offline_job(None) raises AttributeError.
CopyOne ==
    /\ v_pc = "copy"
    /\ v_filenames # <<>>
    /\ v_filenames' = Tail(v_filenames)
    /\ LET filename == Head(v_filenames)
       IN  IF filename \notin DOMAIN running
           THEN UNCHANGED <<v_pc, v_crash, v_local, v_jobs, v_timestamp_jobs,
                            v_overviews, v_n_entries>>
           ELSE LET got   == unpickle(running[filename], TRUE)
                    added == AddOfflineSamples([timestamp_jobs |-> v_timestamp_jobs,
                                                overviews |-> v_overviews], got.job, 1)
                IN  /\ v_local' = DictSet(v_local, filename, running[filename])
                    /\ IF ~got.found
                       THEN /\ v_pc' = "crashed"
                            /\ v_crash' = "AttributeError: job.jobid"
                            /\ UNCHANGED <<v_jobs, v_timestamp_jobs, v_overviews, v_n_entries>>
                       ELSE /\ v_jobs' = SetJob(v_jobs, got.job)
                            /\ v_timestamp_jobs' = added.timestamp_jobs
                            /\ v_overviews' = added.overviews
                            /\ v_n_entries' = v_n_entries + 1
                            /\ UNCHANGED <<v_pc, v_crash>>
    /\ UNCHANGED <<v_fetches, v_timestamp, v_timestamps, v_waited,
                   envVars, samplerVars, callVars, fsVars, histVars>>

\* line 1049: self.overviews[timestamp] = overview_list2str(self.overviews[timestamp]).
\* KeyError when no fetched job has a sample at timestamp; the sort key of an
\* empty overview line ('' has no second word) raises IndexError.
FetchEnd ==
    /\ v_pc = "copy"
    /\ v_filenames = <<>>
    /\ IF v_timestamp \notin DOMAIN v_overviews
       THEN /\ v_pc' = "crashed"
            /\ v_crash' = "KeyError: overviews[timestamp]"
            /\ UNCHANGED v_overviews
       ELSE IF \E k \in 1..Len(v_overviews[v_timestamp].lines) :
                  v_overviews[v_timestamp].lines[k] = EmptyLine
       THEN /\ v_pc' = "crashed"
            /\ v_crash' = "IndexError: overview_by_user"
            /\ UNCHANGED v_overviews
       ELSE /\ v_pc' = "idle"
            /\ v_overviews' = [v_overviews EXCEPT ![v_timestamp] =
                                  overview_list2str(@.lines, v_n_entries)]
            /\ UNCHANGED v_crash
    /\ UNCHANGED <<v_fetches, v_timestamp, v_filenames, v_local, v_jobs, v_timestamps,
                   v_timestamp_jobs, v_n_entries, v_waited,
                   envVars, samplerVars, callVars, fsVars, histVars>>

\* the steps of the viewer process
ViewerNext ==
    \/ FetchStart
    \/ PollEmpty
    \/ PollFound
    \/ Glob
    \/ CopyOne
    \/ FetchEnd

\* the steps of the sampler process
Next ==
    \/ SampleStart
    \/ FinishJob
    \/ BeginPasses
    \/ Pass1Step
    \/ Pass1End
    \/ Pass2Step
    \/ PickleRunningClose
    \/ Pass2End
    \/ MarkerOpen
    \/ MarkerClose
    \/ SetOverview
    \/ AppendTimestamp

Spec == Init /\ [][Next]_vars

\* Job.pickle('running') of pass 2 ends in an exception of pickle.dump, which
\* leaves sample(). The caller is not part of sample(): either the exception
\* ends the process, or it is reported and sample() is called again later.
PickleRunningFail ==
    /\ pc = "pickle_running"
    /\ LET res == Job_pickle_dump_raises(running, jobs[i_entry], "running")
       IN  /\ running' = res.store
           /\ jobs' = [jobs EXCEPT ![i_entry] = res.job]
           /\ crash' = res.error
    /\ pc' \in {"idle", "crashed"}
    /\ UNCHANGED <<timestamps, timestamp_jobs, overviews, jobids_running_previous,
                   jobids_running, mhost_jobs, n_entries, calls, job_entries,
                   jobids_finished, timestamp, i_entry, overview, completed, marker,
                   histVars, envVars, viewerVars>>

\* the offline sampler on a file system on which a dump can fail
InitDump ==
    /\ offline = TRUE
    /\ cluster = NormalIds
    /\ interactive = {}
    /\ g_job = <<>>
    /\ InitSampler
    /\ u_in = <<>>
    /\ u_sample = <<>>
    /\ InitViewer("off")

NextDump == Next \/ PickleRunningFail

SpecDump == InitDump /\ [][NextDump]_vars

\* the offline sampler and a viewer, two processes on one data directory
InitHandoff ==
    /\ offline = TRUE
    /\ cluster = SubSeq(NormalIds, 1, 1)
    /\ interactive = {}
    /\ g_job = <<>>
    /\ InitSampler
    /\ u_in = <<>>
    /\ u_sample = <<>>
    /\ InitViewer("idle")

NextHandoff == Next \/ ViewerNext

\* the offline sampler on a cluster where qstat reports some of the jobs as
\* interactive
InitInteractive ==
    /\ offline = TRUE
    /\ cluster = NormalIds
    /\ interactive \in SUBSET SeqToSet(NormalIds) \ {{}}
    /\ g_job = <<>>
    /\ InitSampler
    /\ u_in = <<>>
    /\ u_sample = <<>>
    /\ InitViewer("off")

SpecInteractive == InitInteractive /\ [][Next]_vars

SpecHandoff == InitHandoff /\ [][NextHandoff]_vars

\* the sampler and the viewer keep running, and a viewer that polls again and
\* again reads the marker at a moment at which it is there
FairHandoff ==
    /\ SpecHandoff
    /\ WF_vars(Next)
    /\ WF_vars(ViewerNext)
    /\ SF_vars(PollFound)

\* ------------------------------------- Job.pickle and unpickle on their own
\* a Running entry of jobid for which the rules give the messages msgs
GwEntry(jobid, msgs) ==
    [jobid |-> jobid, mhost_known |-> TRUE, state |-> "Running", msgs |-> msgs,
     interactive |-> FALSE]

\* the job after check_for_issues(t), alone on its master host
GwChecked(job, t) ==
    Job_check_for_issues(<<job>>, [h \in {job.mhost} |-> <<job.jobid>>], job, t).job

\* the Jobs with n samples, at the timestamps 1..n, that sample() can build
RECURSIVE GatewayJobs(_)
GatewayJobs(n) ==
    IF n = 1
    THEN {GwChecked(NewJob(1, GwEntry(jobid, m)), 1) :
              jobid \in {NormalIds[1]}, m \in MsgOptions}
    ELSE {GwChecked(add_sample(job, GwEntry(job.jobid, m), n), n) :
              job \in GatewayJobs(n - 1), m \in MsgOptions}

\* the compressed records of a directory
GzStore(dir) == IF dir = "running" THEN running ELSE completed

Dirs == {"running", "completed/"}

\* the paths a caller may hand to unpickle
Paths ==
    {[dir |-> dir, stem |-> stem, ext |-> ext] :
        dir \in Dirs,
        stem \in DOMAIN running \cup DOMAIN completed \cup DOMAIN plain
                  \cup {PickleName(g_job[i], "running") : i \in 1..Len(g_job)},
        ext \in {".pickled.gz", ".pickled", ""}}

\* a Job of the sampler and an empty data directory
InitGateway ==
    /\ offline = TRUE
    /\ cluster = NormalIds
    /\ interactive = {}
    /\ g_job \in {<<job>> : job \in UNION {GatewayJobs(n) : n \in 1..MaxSamples}}
    /\ InitSampler
    /\ u_in = <<>>
    /\ u_sample = <<>>
    /\ InitViewer("off")

\* job.pickle(prefix, only_if_warnings, compressed=...)
GwPickle ==
    /\ g_job # <<>>
    /\ \E prefix \in Dirs, only_if_warnings \in BOOLEAN, compressed \in BOOLEAN :
         LET job == g_job[1]
             res == Job_pickle(GzStore(prefix), job, prefix, only_if_warnings, compressed)
         IN  /\ IF prefix = "running"
                THEN running' = res.store /\ UNCHANGED completed
                ELSE completed' = res.store /\ UNCHANGED running
             /\ g_job' = <<res.job>>
             /\ g_pickled' = IF res.store # GzStore(prefix) \/
                                   (res.error = "" /\ PickleWrites(job, only_if_warnings))
                              THEN DictSet(g_pickled, PickleName(job, prefix), job)
                              ELSE g_pickled
             /\ g_out' = [op |-> "pickle", prefix |-> prefix,
                          only_if_warnings |-> only_if_warnings,
                          compressed |-> compressed,
                          error |-> res.error,
                          job_before |-> job,
                          store_before |-> GzStore(prefix)]
    /\ UNCHANGED <<plain, marker, offline, cluster, now, interactive, unitVars,
                   samplerVars, callVars, histVars, viewerVars>>

\* the environment: a compressed record is cut short (a copy that was
\* interrupted, a full disk), so that it can no longer be read
GwDamage ==
    /\ \E dir \in Dirs : \E stem \in DOMAIN GzStore(dir) :
         /\ ~GzStore(dir)[stem].partial
         /\ IF dir = "running"
            THEN running' = [running EXCEPT ![stem].partial = TRUE] /\ UNCHANGED completed
            ELSE completed' = [completed EXCEPT ![stem].partial = TRUE] /\ UNCHANGED running
    /\ g_out' = [op |-> "damage"]
    /\ UNCHANGED <<plain, g_job, g_pickled, marker, offline, cluster, now, interactive, unitVars,
                   samplerVars, callVars, histVars, viewerVars>>

\* the environment: gunzip replaces a compressed record by its uncompressed
\* form (*.pickled)
GwGunzip ==
    /\ \E dir \in Dirs : \E stem \in DOMAIN GzStore(dir) :
         /\ ~GzStore(dir)[stem].partial
         /\ plain' = DictSet(plain, stem, GzStore(dir)[stem])
         /\ IF dir = "running"
            THEN running' = DictDel(running, stem) /\ UNCHANGED completed
            ELSE completed' = DictDel(completed, stem) /\ UNCHANGED running
    /\ g_out' = [op |-> "gunzip"]
    /\ UNCHANGED <<g_job, g_pickled, marker, offline, cluster, now, interactive, unitVars,
                   samplerVars, callVars, histVars, viewerVars>>

\* job = unpickle(fpath, sampler): the caller goes on with the Job it got
GwUnpickle ==
    /\ \E fpath \in Paths, sampler \in BOOLEAN :
         LET res == unpickle_fpath(GzStore(fpath.dir), plain, fpath, sampler)
         IN  /\ g_out' = [op |-> "unpickle", fpath |-> fpath, sampler |-> sampler,
                          error |-> res.error, found |-> res.found, job |-> res.job]
             /\ g_job' = IF res.error = "" /\ res.found THEN <<res.job>> ELSE g_job
    /\ UNCHANGED <<plain, g_pickled, fsVars, offline, cluster, now, interactive, unitVars,
                   samplerVars, callVars, histVars, viewerVars>>

\* the next snapshot gives the Job in memory one more sample, as pass 1 and
\* pass 2 of sample() do
GwSample ==
    /\ g_job # <<>>
    /\ Len(g_job[1].samples) < MaxSamples
    /\ \E m \in MsgOptions :
         LET job == g_job[1]
             t   == job.last_timestamp + 1
             sampled == [add_sample(job, GwEntry(job.jobid, m), t) EXCEPT !.sampler = TRUE]
         IN  g_job' = <<GwChecked(sampled, t)>>
    /\ g_out' = [op |-> "sample"]
    /\ UNCHANGED <<plain, g_pickled, fsVars, offline, cluster, now, interactive, unitVars,
                   samplerVars, callVars, histVars, viewerVars>>

NextGateway ==
    \/ GwPickle
    \/ GwDamage
    \/ GwGunzip
    \/ GwUnpickle

SpecGateway == InitGateway /\ [][NextGateway]_vars

\* a Job that is pickled after each of its samples
InitNames ==
    /\ offline = TRUE
    /\ cluster = NormalIds
    /\ interactive = {}
    /\ g_job \in {<<job>> : job \in GatewayJobs(1)}
    /\ InitSampler
    /\ u_in = <<>>
    /\ u_sample = <<>>
    /\ InitViewer("off")

NextNames ==
    \/ GwSample
    \/ GwPickle

SpecNames == InitNames /\ [][NextNames]_vars

\* ------------------------------- NeighbouringJobInfo.__init__, with figures
\* the figures of a job sample: get_nnodes, get_ncores, get_effic [%], get_mem
Figures ==
    [nnodes : {1, 2}, ncores : {1, 2}, effic : {50, 100}, memory : {1, 2}]

\* the row of a co-resident job that has no sample at the timestamp
ZeroFigures == [nnodes |-> 0, ncores |-> 0, effic |-> 0, memory |-> 0]

\* another job of the host: tracked, with or without a sample at the timestamp
Neighbours == {[has_sample |-> TRUE, figures |-> f] : f \in Figures}
                  \cup {[has_sample |-> FALSE, figures |-> ZeroFigures]}

RECURSIVE NeighbourSeqs(_)
NeighbourSeqs(n) ==
    IF n = 0 THEN {<<>>}
    ELSE NeighbourSeqs(n - 1)
         \cup {Append(s, nb) : s \in {q \in NeighbourSeqs(n - 1) : Len(q) = n - 1},
                               nb \in Neighbours}

\* sum(list)
RECURSIVE ListSum(_)
ListSum(s) == IF s = <<>> THEN 0 ELSE Head(s) + ListSum(Tail(s))

\* an aggregate efficiency that adds the efficiencies without their weights
WeightedEfficPlain(effic, ncores, n) == ListSum(SubSeq(effic, 1, n))

\* lines 510-512: effic += self.effic[i]*self.ncores[i] for i in range(self.n)
WeightedEffic(effic, ncores, n) ==
    ListSum([i \in 1..n |-> effic[i] * ncores[i]])

\* NeighbouringJobInfo.__init__ for a sample with the figures own on a host
\* that lists the sample's job and the jobs others: the lists after lines
\* 479-505, then the row 'total:' of lines 506-515 when the host has more than
\* one job. The quotient of line 513 is kept as numerator and denominator; a
\* zero denominator is a ZeroDivisionError.
NeighbourFigures(own, others) ==
    LET rows   == <<own>> \o [k \in 1..Len(others) |->
                                 IF others[k].has_sample THEN others[k].figures
                                 ELSE ZeroFigures]
        n      == 1 + Len(others)
        nnodes == [k \in 1..n |-> rows[k].nnodes]
        ncores == [k \in 1..n |-> rows[k].ncores]
        effic  == [k \in 1..n |-> rows[k].effic]
        memory == [k \in 1..n |-> rows[k].memory]
        total  == ListSum(ncores)
    IN  IF n > 1
        THEN IF total = 0
             THEN [error |-> "ZeroDivisionError", n |-> n, has_total |-> FALSE,
                   nnodes |-> nnodes, ncores |-> ncores, effic |-> effic,
                   memory |-> memory, total_effic |-> [num |-> 0, den |-> 1]]
             ELSE [error |-> "", n |-> n, has_total |-> TRUE,
                   nnodes |-> Append(nnodes, 1),
                   ncores |-> Append(ncores, total),
                   effic  |-> effic,
                   memory |-> Append(memory, ListSum(memory)),
                   total_effic |-> [num |-> WeightedEffic(effic, Append(ncores, total), n),
                                    den |-> total]]
        ELSE [error |-> "", n |-> n, has_total |-> FALSE,
              nnodes |-> nnodes, ncores |-> ncores, effic |-> effic,
              memory |-> memory, total_effic |-> [num |-> 0, den |-> 1]]

\* a sample and the other jobs of its master host
InitNeighbours ==
    /\ offline = FALSE
    /\ cluster = NormalIds
    /\ interactive = {}
    /\ g_job = <<>>
    /\ InitSampler
    /\ InitViewer("off")
    /\ u_in \in {<<[own |-> f, others |-> s]>> :
                     f \in Figures, s \in NeighbourSeqs(MaxNeighbours)}
    /\ u_sample = <<>>

\* mhost_job_info = NeighbouringJobInfo(sample)
BuildNeighbourInfo ==
    /\ u_in # <<>>
    /\ u_out.op = "none"
    /\ u_out' = [op |-> "neighbours",
                 info |-> NeighbourFigures(u_in[1].own, u_in[1].others)]
    /\ UNCHANGED <<u_in, u_sample, gatewayVars, offline, cluster, now, interactive,
                   samplerVars, callVars, fsVars, histVars, viewerVars>>

NextNeighbours == BuildNeighbourInfo

SpecNeighbours == InitNeighbours /\ [][NextNeighbours]_vars

\* ---------------- JobSample: compose_overview, compose_details, get_effic
\* int(word) for a word of decimal digits
RECURSIVE int(_)
int(word) ==
    IF word = <<>> THEN 0
    ELSE 10 * int(SubSeq(word, 1, Len(word) - 1)) + word[Len(word)]

\* hhmmss2s: the words of hhmmss.split(':'), asserted to be three
hhmmss2s(hhmmss) ==
    IF Len(hhmmss) # 3 THEN [error |-> "AssertionError", seconds |-> 0]
    ELSE [error   |-> "",
          seconds |-> int(hhmmss[3]) + 60 * (int(hhmmss[2]) + 60 * int(hhmmss[1]))]

\* durations as qstat reports them: "00:01:40", "00:33:20", "00:00:00", "01:40"
hms_000140 == << <<0, 0>>, <<0, 1>>, <<4, 0>> >>
hms_003320 == << <<0, 0>>, <<3, 3>>, <<2, 0>> >>
hms_000000 == << <<0, 0>>, <<0, 0>>, <<0, 0>> >>
hms_0140   == << <<0, 1>>, <<4, 0>> >>

\* what qstat reported for a sample: data['resources_used'] may be missing;
\* the core counts are node_cores.ncores('all') and node_cores.ncores('mhost')
QstatData ==
    [has_resources_used : BOOLEAN,
     walltime        : {hms_000140, hms_000000, hms_0140},
     cput            : {hms_003320},
     ncores          : {0, 20, 40},
     ncores_on_mhost : {0, 20}]

\* the efficiency 0 of line 406
ZeroEffic == [num |-> 0, den |-> 1]

RECURSIVE GCD(_, _)
GCD(a, b) == IF b = 0 THEN a ELSE GCD(b, a % b)

\* the number num/den of a true division, in lowest terms (den > 0)
Quotient(num, den) == [num |-> num \div GCD(num, den), den |-> den \div GCD(num, den)]

\* an except clause that lets the exception through
CaughtNot(raised) == raised

\* lines 404-406: except Exception; nothing leaves get_effic
Caught(raised) == ""

\* a correction with the quotient upside down
EfficCorrectionInverse(effic, ncores, ncores_on_mhost) ==
    Quotient(effic.num * ncores_on_mhost, effic.den * ncores)

\* line 403: self.effic *= (ncores/ncores_on_mhost)
EfficCorrection(effic, ncores, ncores_on_mhost) ==
    Quotient(effic.num * ncores, effic.den * ncores_on_mhost)

\* JobSample.get_effic(mhost_only): the value is computed when the sample has
\* no attribute effic and is the attribute otherwise. The quotient is kept as
\* numerator and denominator.
get_effic(sample, mhost_only) ==
    IF sample.has_effic
    THEN [error |-> "", sample |-> sample, value |-> sample.effic]
    ELSE
    LET q        == sample.data_qstat
        walltime == hhmmss2s(q.walltime)
        cput     == hhmmss2s(q.cput)
        raised   ==
            IF ~q.has_resources_used THEN "KeyError: resources_used"
            ELSE IF walltime.error # "" THEN walltime.error
            ELSE IF cput.error # "" THEN cput.error
            ELSE IF q.ncores * walltime.seconds = 0 THEN "ZeroDivisionError"
            ELSE IF mhost_only /\ q.ncores_on_mhost = 0 THEN "ZeroDivisionError"
            ELSE ""
        whole    == Quotient(100 * cput.seconds, q.ncores * walltime.seconds)
        effic    == IF raised # "" THEN ZeroEffic
                    ELSE IF mhost_only
                         THEN EfficCorrection(whole, q.ncores, q.ncores_on_mhost)
                         ELSE whole
    IN  [error  |-> Caught(raised),
         sample |-> [sample EXCEPT !.has_effic = TRUE, !.effic = effic],
         value  |-> effic]

\* JobSample.compose_details: the text is composed once, from the overview
\* text of that moment and the counters of the parent job
compose_details(job, sample) ==
    IF sample.details # <<>> \/ sample.warnings = <<>>
    THEN sample.details
    ELSE <<[overview |-> sample.overview,
            nsamples_with_warnings |-> job.nsamples_with_warnings,
            warning_counts |-> job.warning_counts]>>

\* the warning lists a sample can hold
WarningLists == {RuleMessages(S, 1) : S \in SUBSET RuleOrdinals}

\* a sample right after JobSample.__init__, alone on its master host, with
\* what qstat reported, the rules that will give a message, and
\* Cfg.correct_effic, the default of get_effic's mhost_only
InitSample ==
    /\ offline = FALSE
    /\ cluster = NormalIds
    /\ interactive = {}
    /\ g_job = <<>>
    /\ InitSampler
    /\ InitViewer("off")
    /\ u_in \in [data_qstat : QstatData, msgs : SUBSET RuleOrdinals,
                 correct_effic : BOOLEAN]
    /\ u_sample = [data_qstat |-> u_in.data_qstat,
                   parent_job |-> [jobid    |-> NormalIds[1],
                                   username |-> UserOf(NormalIds[1]),
                                   nsamples_with_warnings |-> 0,
                                   warning_counts |-> [r \in RuleOrdinals |-> 0]],
                   checked    |-> FALSE,
                   warnings   |-> <<>>,
                   overview   |-> <<>>,
                   details    |-> <<>>,
                   has_effic  |-> FALSE,
                   effic      |-> ZeroEffic]

UnitUnchanged ==
    UNCHANGED <<u_in, gatewayVars, offline, cluster, now, interactive,
                samplerVars, callVars, fsVars, histVars, viewerVars>>

\* what a call returned, and the first non-empty texts returned so far
Out(op, error, text, value, cached) ==
    [op |-> op, error |-> error, text |-> text, value |-> value, cached |-> cached,
     first_overview |-> IF "first_overview" \in DOMAIN u_out
                        THEN u_out.first_overview ELSE <<>>,
     first_details  |-> IF "first_details" \in DOMAIN u_out
                        THEN u_out.first_details ELSE <<>>]

\* JobSample.check_for_issues: the neighbour info asks the efficiency (line
\* 483), then the rules give the warnings and the texts are reset
CheckSample ==
    /\ ~u_sample.checked
    /\ LET res      == get_effic(u_sample, u_in.correct_effic)
           warnings == RuleMessages(u_in.msgs, 1)
       IN  /\ u_sample' =
                IF res.error # "" THEN u_sample
                ELSE [res.sample EXCEPT
                        !.checked  = TRUE,
                        !.warnings = warnings,
                        !.overview = <<>>,
                        !.details  = <<>>,
                        !.parent_job.warning_counts = [r \in RuleOrdinals |->
                             IF r \in u_in.msgs THEN @[r] + 1 ELSE @[r]],
                        !.parent_job.nsamples_with_warnings =
                             IF warnings # <<>> THEN @ + 1 ELSE @]
           /\ u_out' = Out("check_for_issues", res.error, <<>>, res.value,
                           u_sample.has_effic)
    /\ UnitUnchanged

\* sample.get_effic()
GetEffic ==
    /\ LET res == get_effic(u_sample, u_in.correct_effic)
       IN  /\ u_sample' = IF res.error # "" THEN u_sample ELSE res.sample
           /\ u_out' = Out("get_effic", res.error, <<>>, res.value, u_sample.has_effic)
    /\ UnitUnchanged

\* sample.compose_overview()
ComposeOverview ==
    /\ u_sample.checked
    /\ LET text == compose_overview(u_sample.parent_job, u_sample)
       IN  /\ u_sample' = [u_sample EXCEPT !.overview = text]
           /\ u_out' = [Out("compose_overview", "", text, ZeroEffic, FALSE) EXCEPT
                          !.first_overview = IF @ = <<>> THEN text ELSE @]
    /\ UnitUnchanged

\* sample.compose_details()
ComposeDetails ==
    /\ u_sample.checked
    /\ LET text == compose_details(u_sample.parent_job, u_sample)
       IN  /\ u_sample' = [u_sample EXCEPT !.details = text]
           /\ u_out' = [Out("compose_details", "", text, ZeroEffic, FALSE) EXCEPT
                          !.first_details = IF @ = <<>> THEN text ELSE @]
    /\ UnitUnchanged

\* sample.warnings is a list attribute: entries are added or removed, or the
\* list is emptied
MutateWarnings ==
    /\ u_sample.checked
    /\ \E w \in WarningLists \ {u_sample.warnings} :
          u_sample' = [u_sample EXCEPT !.warnings = w]
    /\ u_out' = Out("warnings", "", <<>>, ZeroEffic, FALSE)
    /\ UnitUnchanged

NextSample ==
    \/ CheckSample
    \/ GetEffic
    \/ ComposeOverview
    \/ ComposeDetails
    \/ MutateWarnings

SpecSample == InitSample /\ [][NextSample]_vars

\* sample.get_effic(mhost_only=...) with the argument given by the caller
GetEfficWith ==
    /\ \E mhost_only \in BOOLEAN :
          LET res == get_effic(u_sample, mhost_only)
          IN  /\ u_sample' = IF res.error # "" THEN u_sample ELSE res.sample
              /\ u_out' = [op |-> "get_effic(mhost_only)", mhost_only |-> mhost_only,
                           error |-> res.error, value |-> res.value,
                           cached |-> u_sample.has_effic]
    /\ UnitUnchanged

NextEffic == GetEfficWith

SpecEffic == InitSample /\ [][NextEffic]_vars

\* ------------------------------------- finished.py: the finished-jobs viewer
\* an argument that is None is <<>>, a given one is <<value>>
None == <<>>

\* list[i] of a Python list of n items: the position counted from 0, after a
\* negative index is counted from the end; n stands for an IndexError
PyIndex(i, n) ==
    IF 0 <= i /\ i < n THEN i
    ELSE IF 0 - n <= i /\ i < 0 THEN n + i
    ELSE n

Max(a, b) == IF a >= b THEN a ELSE b

Min(a, b) == IF a <= b THEN a ELSE b

\* Finished.move_details(index, delta) on the current job history jobh with
\* nsamples samples: the history after the call and what the widgets show
move_details(jobh, nsamples, index, delta) ==
    LET i == IF delta # None /\ delta[1] # 0
             THEN Min(Max(0, jobh.current_timestamp + delta[1]), nsamples - 1)
             ELSE index[1]
    IN  [error |-> IF PyIndex(i, nsamples) = nsamples THEN "IndexError" ELSE "",
         jobh  |-> [jobh EXCEPT !.current_timestamp = i],
         qwDetailsNSamples  |-> <<i, nsamples>>,
         qwDetailsTimestamp |-> PyIndex(i, nsamples)]

\* Finished.show_details has loaded the history of a job with 1 to MaxHistory
\* samples: JobHistory.__init__ sets current_timestamp = 0
InitFinished ==
    /\ offline = FALSE
    /\ cluster = NormalIds
    /\ interactive = {}
    /\ g_job = <<>>
    /\ InitSampler
    /\ InitViewer("off")
    /\ u_in \in [nsamples : 1..MaxHistory]
    /\ u_sample = [current_timestamp |-> 0]

\* a button of the details pane is pressed: move_details with its arguments
Pressed(button, index, delta) ==
    /\ LET res == move_details(u_sample, u_in.nsamples, index, delta)
       IN  /\ res.error = ""
           /\ u_sample' = res.jobh
           /\ u_out' = [op |-> button,
                        previous |-> u_out.op,
                        qwDetailsNSamples  |-> res.qwDetailsNSamples,
                        qwDetailsTimestamp |-> res.qwDetailsTimestamp]
    /\ UnitUnchanged

on_qwDetailsFirst_pressed == Pressed("First", <<0>>, None)

on_qwDetailsFBwd_pressed == Pressed("FBwd", None, <<0 - 5>>)

on_qwDetailsBwd_pressed == Pressed("Bwd", None, <<0 - 1>>)

on_qwDetailsFwd_pressed == Pressed("Fwd", None, <<1>>)

on_qwDetailsFFwd_pressed == Pressed("FFwd", None, <<5>>)

on_qwDetailsLast_pressed == Pressed("Last", <<0 - 1>>, None)

NextFinished ==
    \/ on_qwDetailsFirst_pressed
    \/ on_qwDetailsFBwd_pressed
    \/ on_qwDetailsBwd_pressed
    \/ on_qwDetailsFwd_pressed
    \/ on_qwDetailsFFwd_pressed
    \/ on_qwDetailsLast_pressed

SpecFinished == InitFinished /\ [][NextFinished]_vars

\* ------------------------------------------------------------- properties
\* the job identifiers among the filtered entries of the current snapshot
EntryIdSet == SeqToSet(EntryIds(job_entries))

\* the removal loop of a sample() call has run to its end
RemovalDone ==
    \/ pc \in {"pass1", "pass2", "pickle_running", "marker_open", "marker_close",
               "set_overview", "append_timestamp"}
    \/ pc = "idle" /\ calls > 0
    \/ pc = "crashed" /\ timestamp # NoTimestamp

\* the entries of finished_log for jobid in sample() call number call
LoggedFor(call, jobid) ==
    {i \in 1..Len(finished_log) :
        finished_log[i].call = call /\ finished_log[i].jobid = jobid}

\* the job identifiers with a line in an overview list
LineIds(lines) == {lines[k].jobid : k \in 1..Len(lines)}

RunningTimestamps(jobid) ==
    LET sel == SelectSeq(snapshots, LAMBDA s : jobid \in s.running)
    IN  [i \in 1..Len(sel) |-> sel[i].timestamp]

StrictlyIncreasing(seq) == \A i \in 1..(Len(seq) - 1) : seq[i] < seq[i + 1]

\* C2 as stated: between sample() calls, the sample timestamps of every
\* tracked Job are strictly increasing and are exactly the timestamps of the
\* snapshots in which the job had a Running entry, one sample per snapshot
C2_Original ==
    pc = "idle" =>
        \A k \in 1..Len(jobs) :
            /\ StrictlyIncreasing(JobTimestamps(jobs[k]))
            /\ JobTimestamps(jobs[k]) = RunningTimestamps(jobs[k].jobid)

\* C3 as stated: every running record the viewer has copied in this fetch is
\* completely written and has no sample later than the marker content it read
C3_Original ==
    \A filename \in DOMAIN v_local :
        /\ ~v_local[filename].partial
        /\ \A i \in 1..Len(v_local[filename].job.samples) :
              v_local[filename].job.samples[i].timestamp <= v_timestamp

\* C4 as stated: offline, the marker is never present while sample() is about
\* to pickle a finished job to completed/ and remove its running record
C4_Original ==
    ~(/\ offline
      /\ marker.present
      /\ pc = "finish"
      /\ jobids_finished # <<>>
      /\ HasJob(jobs, Head(jobids_finished)))

\* within one sample() call the marker comes last: offline, while the marker
\* holds the timestamp the call in progress has read, that call is past all its
\* record writes, and no running record is ever open while a marker is present
MarkerLastWithinCall ==
    /\ (offline /\ marker.present /\ marker.content # NoTimestamp
           /\ marker.content = timestamp) =>
          /\ pc \in {"set_overview", "append_timestamp", "idle"}
          /\ \A filename \in DOMAIN running : ~running[filename].partial
    /\ (\E filename \in DOMAIN running : running[filename].partial) => ~marker.present

\* C5 as stated: offline, no record that sample() writes for snapshot T is
\* written while the marker with content T exists: a completed record written
\* by the removal loop of a call never finds the marker holding the timestamp
\* that this call gives its snapshot
C5_Original ==
    \A i \in 1..Len(finished_log) : \A k \in 1..Len(snapshots) :
        (/\ offline
         /\ finished_log[i].call = snapshots[k].call
         /\ finished_log[i].records_written = 1
         /\ finished_log[i].marker) =>
            finished_log[i].marker_content # snapshots[k].timestamp

\* the marker is there and holds a timestamp
MarkerReadable == marker.present /\ marker.content # NoTimestamp

C7_Pass1BeforePass2 ==
    pc \in {"pass2", "pickle_running"} =>
        /\ \A jobid \in RunningIds(job_entries) :
              HasJob(jobs, jobid) /\ HasSample(GetJob(jobs, jobid), timestamp)
        /\ \A k \in 1..(i_entry - 1) :
              HasSample(jobs[k], timestamp) =>
                 LET sample == jobs[k].samples[SampleIndex(jobs[k], timestamp)]
                 IN  \A r \in 1..Len(sample.neighbours) :
                        sample.neighbours[r].jobid \in RunningIds(job_entries)
                            => sample.neighbours[r].info

\* C7 witness: pass 2 has checked a job whose Running neighbour has its sample
C7_Witness ==
    /\ pc = "pass2"
    /\ i_entry > 1
    /\ Cardinality(RunningIds(job_entries)) = 2
    /\ HasSample(jobs[1], timestamp)
    /\ LET sample == jobs[1].samples[SampleIndex(jobs[1], timestamp)]
       IN  sample.checked /\ Len(sample.neighbours) = 1 /\ sample.neighbours[1].info

\* C8 as stated: a tracked Job without a sample at the current timestamp does
\* not make pass 2 abort
C8_Original == ~(pc = "crashed" /\ crash = "KeyError: samples[timestamp]")

\* C9 as stated: between sample() calls every jobid in timestamp_jobs[t] has
\* a JobSample at t reachable through Sampler.jobs
C9_Original ==
    pc = "idle" =>
        \A t \in DOMAIN timestamp_jobs :
            \A k \in 1..Len(timestamp_jobs[t]) :
                /\ HasJob(jobs, timestamp_jobs[t][k])
                /\ HasSample(GetJob(jobs, timestamp_jobs[t][k]), t)

\* C10 as stated: an entry without master host or with a bracketed index is
\* dropped without an error and appears nowhere in what sample() builds
C10_Original ==
    /\ ~(pc = "crashed" /\ crash = "AttributeError: job_entry.get_jobid_long")
    /\ \A i \in 1..Len(job_entries) :
          job_entries[i].mhost_known /\ ~IsArrayId(job_entries[i].jobid)
    /\ n_entries = Len(job_entries)
    /\ \A jobid \in JobIdsOf(jobs) \cup SeqToSet(jobids_running) : ~IsArrayId(jobid)

\* C11 as stated: a sample() call whose filtered snapshot has no Running entry
\* does not run to its end: it records no overview and appends no timestamp
C11_Original ==
    ~(/\ pc = "idle"
      /\ calls > 0
      /\ RunningIds(job_entries) = {}
      /\ timestamps # <<>>
      /\ timestamps[Len(timestamps)] = timestamp
      /\ timestamp \in DOMAIN overviews)

\* a Job as Job.__init__ leaves it: one sample, at timestamp t, no warning counted
FreshJob(job, t) ==
    /\ JobTimestamps(job) = <<t>>
    /\ job.first_timestamp = t
    /\ job.nsamples_with_warnings = 0
    /\ \A r \in RuleOrdinals : job.warning_counts[r] = 0

\* C12: no grace period. Once the removal loop of a call has run, every job
\* tracked at the start of the call and absent from its snapshot is out of
\* Sampler.jobs and was handed to the removal loop's pickle; and whenever an
\* identifier enters Sampler.jobs, it does so as a new Job with only the sample
\* of the current timestamp and all warning counters at zero.
C12_NoGracePeriod ==
    /\ [](RemovalDone =>
            \A jobid \in jobs_at_start \ EntryIdSet :
                ~HasJob(jobs, jobid) /\ LoggedFor(calls, jobid) # {})
    /\ [][\A jobid \in SeqToSet(cluster) :
            (~HasJob(jobs, jobid) /\ HasJob(jobs', jobid)) =>
                FreshJob(GetJob(jobs', jobid), timestamp)]_vars

\* C12 witness: a job Running in snapshot 1 with a warning, removed in call 2,
\* is tracked again in call 3 with the sample of call 3 only
C12_Witness ==
    /\ calls = 3
    /\ pc = "pass2"
    /\ i_entry = 1
    /\ \E jobid \in JobIdsOf(jobs) :
          /\ \E i \in LoggedFor(2, jobid) : finished_log[i].nsamples_with_warnings > 0
          /\ \E k \in 1..Len(snapshots) :
                snapshots[k].call = 1 /\ jobid \in snapshots[k].running
          /\ FreshJob(GetJob(jobs, jobid), timestamp)

\* C18 as stated: after completed sample() calls the counters of every tracked
\* Job equal the numbers of its samples with a message of the rule, and with
\* any warning
C18_Original ==
    (pc = "idle" /\ calls > 0) =>
        \A j \in 1..Len(jobs) :
            LET job == jobs[j]
                n   == 1..Len(job.samples)
            IN  /\ \A r \in RuleOrdinals :
                      job.warning_counts[r] =
                          Cardinality({i \in n : r \in SeqToSet(job.samples[i].warnings)})
                /\ job.nsamples_with_warnings =
                      Cardinality({i \in n : job.samples[i].warnings # <<>>})
                /\ job.nsamples_with_warnings <= Len(job.samples)

\* C19: a job that qstat reports as interactive never has a warning: its
\* checked samples have an empty warning list and no overview line, its
\* counters stay zero, and no overview holds a line of it
C19_InteractiveIgnored ==
    /\ \A j \in 1..Len(jobs) :
          jobs[j].jobid \in interactive =>
              /\ jobs[j].nsamples_with_warnings = 0
              /\ \A r \in RuleOrdinals : jobs[j].warning_counts[r] = 0
              /\ \A i \in 1..Len(jobs[j].samples) :
                    /\ jobs[j].samples[i].warnings = <<>>
                    /\ jobs[j].samples[i].overview = <<>>
    /\ LineIds(overview) \cap interactive = {}
    /\ \A t \in DOMAIN overviews : LineIds(overviews[t].lines) \cap interactive = {}

\* C19 witness: a call has ended in which the rules had a message for the
\* checked sample of an interactive job
C19_Witness ==
    /\ pc = "idle"
    /\ calls > 0
    /\ \E j \in 1..Len(jobs) :
          /\ jobs[j].jobid \in interactive
          /\ \E i \in 1..Len(jobs[j].samples) :
                /\ jobs[j].samples[i].checked
                /\ jobs[j].samples[i].msgs # {}

\* C20 as stated: building the neighbour info never fails because of a
\* co-resident job listed in the host index
C20_Original == ~(pc = "crashed" /\ crash = "KeyError: jobs[jobid2]")

\* the store that the last pickle call wrote to, as it is now
StoreAfter == GzStore(g_out.prefix)

\* the last pickle call wrote exactly one record: it returned, the record of
\* the job is in the store and every other record is as it was
WroteOneRecord ==
    LET name == PickleName(g_out.job_before, g_out.prefix)
    IN  /\ g_out.error = ""
        /\ name \in DOMAIN StoreAfter
        /\ StoreAfter[name].job.jobid = g_out.job_before.jobid
        /\ JobTimestamps(StoreAfter[name].job) = JobTimestamps(g_out.job_before)
        /\ ~StoreAfter[name].partial
        /\ DOMAIN StoreAfter = DOMAIN g_out.store_before \cup {name}
        /\ \A other \in DOMAIN g_out.store_before \ {name} :
              StoreAfter[other] = g_out.store_before[other]

\* C13 as stated: pickle with only_if_warnings on a job without a warning
\* sample writes nothing and leaves job and store as they were; in every other
\* case it writes exactly one record
C13_Original ==
    g_out.op = "pickle" =>
        IF g_out.only_if_warnings /\ g_out.job_before.nsamples_with_warnings = 0
        THEN /\ g_out.error = ""
             /\ StoreAfter = g_out.store_before
             /\ g_job = <<g_out.job_before>>
        ELSE WroteOneRecord

\* C14: the record that pickle writes has no reference to the Sampler and no
\* parent reference in any sample, and after the call the job in memory has
\* the references it had before
C14_ReferencesRestored ==
    g_out.op = "pickle" =>
        /\ g_job = <<g_out.job_before>>
        /\ WroteOneRecord =>
              LET record == StoreAfter[PickleName(g_out.job_before, g_out.prefix)].job
              IN  /\ ~record.sampler
                  /\ \A i \in 1..Len(record.samples) : ~record.samples[i].parent_job

\* C14 witness: pickle has written the record of a job that refers to its
\* Sampler and has MaxSamples samples
C14_Witness ==
    /\ g_out.op = "pickle"
    /\ WroteOneRecord
    /\ g_out.job_before.sampler
    /\ Len(g_out.job_before.samples) = MaxSamples
    /\ \A i \in 1..Len(g_out.job_before.samples) : g_out.job_before.samples[i].parent_job

\* the last unpickle call returned a Job
Loaded == g_out.op = "unpickle" /\ g_out.error = "" /\ g_out.found

\* the loaded Job has the sample timestamps, identifiers and counters of the
\* Job that was pickled under the name, its sampler reference is the sampler
\* supplied (None when none was) and every sample's parent is the loaded Job
RoundTrip ==
    LET src == g_pickled[g_out.fpath.stem]
        got == g_out.job
    IN  /\ JobTimestamps(got) = JobTimestamps(src)
        /\ got.jobid = src.jobid
        /\ got.username = src.username
        /\ got.mhost = src.mhost
        /\ got.nsamples_with_warnings = src.nsamples_with_warnings
        /\ got.warning_counts = src.warning_counts
        /\ got.first_timestamp = src.first_timestamp
        /\ got.last_timestamp = src.last_timestamp
        /\ \A i \in 1..Len(src.samples) : got.samples[i].warnings = src.samples[i].warnings
        /\ got.sampler = g_out.sampler
        /\ \A i \in 1..Len(got.samples) : got.samples[i].parent_job

\* C15: pickle then unpickle gives a Job with the same sample timestamps in
\* the same order and the same identifiers and counters; its sampler reference
\* is the supplied sampler, None when none is supplied, and the parent
\* reference of every sample is the loaded Job in both cases
C15_RoundTrip == Loaded => RoundTrip

\* C15 witness: a Job with MaxSamples samples loaded without a sampler
C15_Witness ==
    /\ Loaded
    /\ ~g_out.sampler
    /\ Len(g_out.job.samples) = MaxSamples
    /\ g_out.job.nsamples_with_warnings > 0

\* C15 as stated: as above, but without a sampler supplied all the
\* back-references of the loaded Job are null, the parent references too
C15_Original ==
    Loaded =>
        /\ RoundTrip
        /\ ~g_out.sampler =>
              /\ ~g_out.job.sampler
              /\ \A i \in 1..Len(g_out.job.samples) : ~g_out.job.samples[i].parent_job

\* the record at the path can be read
Readable(store, stem) == stem \in DOMAIN store /\ ~store[stem].partial

\* C16: unpickle never raises; with the suffix .pickled.gz or .pickled it
\* returns None when the record of that name is missing or cannot be read,
\* without suffix it reads the compressed record when that exists, otherwise
\* the uncompressed one, and returns None when neither exists
C16_UnpickleNeverRaises ==
    g_out.op = "unpickle" =>
        LET stem == g_out.fpath.stem
            gz   == GzStore(g_out.fpath.dir)
        IN  /\ g_out.error = ""
            /\ g_out.found =
                  (IF g_out.fpath.ext = ".pickled.gz" THEN Readable(gz, stem)
                   ELSE IF g_out.fpath.ext = ".pickled" THEN Readable(plain, stem)
                   ELSE IF stem \in DOMAIN gz THEN Readable(gz, stem)
                   ELSE Readable(plain, stem))

\* C16 witness: unpickle of a compressed record that exists and cannot be read
C16_Witness ==
    /\ g_out.op = "unpickle"
    /\ g_out.fpath.ext = ".pickled.gz"
    /\ g_out.fpath.stem \in DOMAIN GzStore(g_out.fpath.dir)
    /\ GzStore(g_out.fpath.dir)[g_out.fpath.stem].partial
    /\ ~g_out.found

\* C17 as stated: a copied running record that fails to load is skipped
\* without error by fetch_offline_samples
C17_Original == ~(v_pc = "crashed" /\ v_crash = "AttributeError: job.jobid")

\* a sample() call has returned normally
Returned == pc = "idle" /\ calls > 0

\* C25 as stated: when sample() returns, the keys of Sampler.jobs are the
\* identifiers with a Running entry in the filtered snapshot, and
\* timestamp_jobs lists exactly those identifiers for the returned timestamp
C25_Original ==
    Returned =>
        /\ JobIdsOf(jobs) = RunningIds(job_entries)
        /\ IF RunningIds(job_entries) = {}
           THEN timestamp \notin DOMAIN timestamp_jobs
           ELSE /\ timestamp \in DOMAIN timestamp_jobs
                /\ SeqToSet(timestamp_jobs[timestamp]) = RunningIds(job_entries)
                /\ Len(timestamp_jobs[timestamp]) = Cardinality(RunningIds(job_entries))

\* the tracked jobs whose sample at t has a warning
WarnedAt(t) ==
    {jobs[j].jobid : j \in {k \in 1..Len(jobs) :
        /\ HasSample(jobs[k], t)
        /\ jobs[k].samples[SampleIndex(jobs[k], t)].warnings # <<>>}}

\* C26: the overview that sample() records for its timestamp has exactly one
\* line for every tracked job whose sample at the timestamp has a warning, and
\* no other line
C26_OverviewLines ==
    Returned =>
        /\ timestamp \in DOMAIN overviews
        /\ LineIds(overviews[timestamp].lines) = WarnedAt(timestamp)
        /\ Len(overviews[timestamp].lines) = Cardinality(WarnedAt(timestamp))

\* C26 witness: a call has returned with two tracked jobs of which exactly one
\* has a warning at the timestamp
C26_Witness ==
    /\ Returned
    /\ Len(jobs) = 2
    /\ Cardinality(WarnedAt(timestamp)) = 1

\* the identifiers of this snapshot's filtered entries on host, in their order
OnHost(host) == SelectSeq(EntryIds(job_entries), LAMBDA id : MHostOf(id) = host)

\* C27: after a sample() call the host index maps each host to the identifiers
\* of this snapshot's filtered entries on it, of any state, and holds nothing
\* else
C27_HostIndexRebuilt ==
    Returned =>
        /\ DOMAIN mhost_jobs = {MHostOf(id) : id \in EntryIdSet}
        /\ \A host \in DOMAIN mhost_jobs : mhost_jobs[host] = OnHost(host)

\* C27 witness: a job listed in the previous snapshot is not listed in this
\* one, which has an entry that is not Running
C27_Witness ==
    /\ Returned
    /\ calls > 1
    /\ \E k \in 1..Len(snapshots) :
          snapshots[k].call = calls - 1 /\ snapshots[k].running \ EntryIdSet # {}
    /\ \E i \in 1..Len(job_entries) : job_entries[i].state # "Running"

\* the job identifiers with a record in the running store
RecordIds == {running[name].job.jobid : name \in DOMAIN running}

\* C28 as stated: offline, when a call has completed and the marker is there,
\* the running store has a record of exactly the tracked jobs that have a
\* sample with warnings
C28_Original ==
    (offline /\ Returned /\ marker.present) =>
        RecordIds = {jobs[j].jobid : j \in {k \in 1..Len(jobs) :
                        \E i \in 1..Len(jobs[k].samples) :
                            jobs[k].samples[i].warnings # <<>>}}

\* C29 as stated: offline, while the marker holds T the last sample of every
\* record in the running store has timestamp T
C29_Original ==
    (offline /\ marker.present /\ marker.content # NoTimestamp) =>
        \A name \in DOMAIN running :
            LET job == running[name].job
            IN  job.samples[Len(job.samples)].timestamp = marker.content

\* C30: the name of a record is a function of the job. A record in the running
\* store is named by username and job id, so the store holds one record per
\* job and a pickle to it replaces the record; a record in the completed store
\* is named by username, job id and the timestamp of the job's last sample, so
\* jobs of one identifier with different last timestamps have different records
C30_RecordNames ==
    /\ \A name \in DOMAIN running :
          name = <<running[name].job.username, running[name].job.jobid>>
    /\ \A name \in DOMAIN completed :
          LET job == completed[name].job
          IN  name = <<job.username, job.jobid, job.samples[Len(job.samples)].timestamp>>
    /\ (g_out.op = "pickle" /\ g_out.prefix = "running" /\ WroteOneRecord) =>
          LET name == <<g_out.job_before.username, g_out.job_before.jobid>>
          IN  /\ running[name].job.last_timestamp = g_out.job_before.last_timestamp
              /\ \A other \in DOMAIN running :
                    running[other].job.jobid = g_out.job_before.jobid => other = name

\* C30 witness: the job was pickled to both stores after each of two samples:
\* the completed store holds two records of it, the running store one, which
\* the last pickle replaced
C30_Witness ==
    /\ g_out.op = "pickle" /\ g_out.prefix = "running" /\ WroteOneRecord
    /\ PickleName(g_out.job_before, "running") \in DOMAIN g_out.store_before
    /\ g_out.store_before[PickleName(g_out.job_before, "running")].job.last_timestamp
          # g_out.job_before.last_timestamp
    /\ Cardinality({name \in DOMAIN completed :
                        completed[name].job.jobid = g_out.job_before.jobid}) = 2
    /\ Cardinality(DOMAIN running) = 1

\* the rows of the jobs of the host in the last neighbour info: the sample's
\* own figures, then those of the other jobs (zeros without a sample)
HostRows ==
    <<u_in[1].own>> \o [k \in 1..Len(u_in[1].others) |-> u_in[1].others[k].figures]

C22_Original ==
    /\ (u_out.op = "compose_overview" /\ u_out.first_overview # <<>>)
          => u_out.text = u_out.first_overview
    /\ (u_out.op = "compose_details" /\ u_out.first_details # <<>>)
          => u_out.text = u_out.first_details

\* the sample's qstat data are those of the example: cpu 2000 s, wall time
\* 100 s, 40 cores in total, 20 of them on the master host
EfficExample ==
    /\ u_in.data_qstat.has_resources_used
    /\ u_in.data_qstat.cput = hms_003320
    /\ u_in.data_qstat.walltime = hms_000140
    /\ u_in.data_qstat.ncores = 40
    /\ u_in.data_qstat.ncores_on_mhost = 20

\* a field is missing or malformed, or a divisor of the computation is zero
EfficFails ==
    LET q == u_in.data_qstat
    IN  \/ ~q.has_resources_used
        \/ Len(q.walltime) # 3
        \/ q.walltime = hms_000000
        \/ q.ncores = 0
        \/ u_in.correct_effic /\ q.ncores_on_mhost = 0

\* C23: get_effic gives 100 * cpu_seconds / (cores * wall_seconds), times
\* cores / cores_on_master when the correction is on: 50 without and 100 with
\* the correction for cpu 2000 s, wall time 100 s, 40 cores, 20 on the master
C23_EfficValue ==
    (u_out.op = "get_effic" /\ ~EfficFails) =>
        LET q    == u_in.data_qstat
            cpu  == hhmmss2s(q.cput).seconds
            wall == hhmmss2s(q.walltime).seconds
            v    == u_out.value
        IN  /\ v.den # 0
            /\ hhmmss2s(hms_003320).seconds = 2000
            /\ hhmmss2s(hms_000140).seconds = 100
            /\ IF u_in.correct_effic
               THEN /\ v.num * (q.ncores * wall * q.ncores_on_mhost)
                          = (100 * cpu * q.ncores) * v.den
                    /\ EfficExample => v.num = 100 * v.den
               ELSE /\ v.num * (q.ncores * wall) = (100 * cpu) * v.den
                    /\ EfficExample => v.num = 50 * v.den

\* C23 witness: get_effic returned 100 for the example with the correction on
C23_Witness ==
    /\ u_out.op = "get_effic"
    /\ EfficExample
    /\ u_in.correct_effic
    /\ ~u_out.cached
    /\ u_out.value.num = 100 * u_out.value.den

\* C24: get_effic never raises; when a field is missing or a divisor is zero it
\* returns 0, the sample keeps that 0, and later calls return it
C24_EfficNeverRaises ==
    /\ u_out.op \in {"get_effic", "check_for_issues"} => u_out.error = ""
    /\ (u_out.op = "get_effic" /\ EfficFails) =>
          /\ u_out.value = ZeroEffic
          /\ u_sample.has_effic
          /\ u_sample.effic = ZeroEffic

\* C24 witness: a later call on a sample with wall time 0 returned the kept 0
C24_Witness ==
    /\ u_out.op = "get_effic"
    /\ u_out.cached
    /\ u_in.data_qstat.has_resources_used
    /\ u_in.data_qstat.walltime = hms_000000
    /\ u_in.data_qstat.ncores = 40
    /\ u_out.value = ZeroEffic
    /\ u_out.error = ""

\* C31: the job script of a tracked Job is loaded at most once, it is loaded
\* in the step in which the first of its samples gets a warning, and it is
\* not loaded for a Job none of whose samples got a warning
C31_JobscriptOnce ==
    \A i \in 1..Len(jobs) :
       /\ jobs[i].jobscript_loads <= 1
       /\ jobs[i].jobscript_loads = 1 <=> jobs[i].nsamples_with_warnings > 0

\* C31 witness: a tracked Job whose samples got warnings in two snapshots and
\* whose script was loaded once
C31_Witness ==
    \E i \in 1..Len(jobs) :
       /\ jobs[i].nsamples_with_warnings >= 2
       /\ jobs[i].jobscript_loads = 1

\* pass 1 of the current sample() call is over
AfterPass1 == pc \notin {"idle", "exited", "crashed", "finish", "pass1"}

\* C32: a tracked Job that is Running in the snapshot has its reference to the
\* Sampler after pass 1, also when the reference was None at the start of the
\* call, and pass 2 does not fail on a missing reference when it checks it
C32_SamplerRepaired ==
    /\ AfterPass1 =>
          \A i \in 1..Len(jobs) :
             jobs[i].jobid \in RunningIds(job_entries) => jobs[i].sampler
    /\ crash \in {"AttributeError: job.sampler", "AttributeError: parent_job.sampler"}
          => jobs[i_entry].jobid \notin RunningIds(job_entries)

\* C32 witness: in pass 2 of a later call, a Job with a sample that lost its
\* parent reference in a failed pickle has its Sampler reference, and its
\* sample of this snapshot has been checked
C32_Witness ==
    /\ pc = "pass2"
    /\ \E i \in 1..Len(jobs) :
          /\ jobs[i].sampler
          /\ \E k \in 1..Len(jobs[i].samples) : ~jobs[i].samples[k].parent_job
          /\ HasSample(jobs[i], timestamp)
          /\ jobs[i].samples[SampleIndex(jobs[i], timestamp)].checked

\* C35 as stated: after a call of Job.pickle in which the dump raised, the
\* job's sampler reference and the parent reference of every sample are what
\* they were before the call
C35_Original ==
    (crash = "Exception: pickle.dump" /\ pc \in {"idle", "crashed"}) =>
        /\ jobs[i_entry].sampler
        /\ \A k \in 1..Len(jobs[i_entry].samples) :
              jobs[i_entry].samples[k].parent_job

\* C33 as stated: in the header of the overview of a snapshot the total is the
\* number of Running jobs of the snapshot, and the number of jobs running well
\* is that total minus the number of overview lines and is not negative
C33_Original ==
    pc = "append_timestamp" =>
        LET text == overviews[timestamp]
        IN  /\ text.n_jobs = Cardinality(RunningIds(job_entries))
            /\ text.n_well = text.n_jobs - Len(text.lines)
            /\ text.n_well >= 0

\* every timestamp of the list ts has a composed overview text in ovs
OverviewsReady(ts, ovs) ==
    \A i \in 1..Len(ts) : ts[i] \in DOMAIN ovs /\ ovs[ts[i]].is_str

\* C34 as stated: in every state, each timestamp in Sampler.timestamps has a
\* composed overview text in Sampler.overviews, in the sampling process and
\* in the process that fetches the offline samples
C34_Original ==
    /\ OverviewsReady(timestamps, overviews)
    /\ OverviewsReady(v_timestamps, v_overviews)

\* C37 as stated: a fetch_offline_samples call that found a marker timestamp
\* other than the last one known ends without an exception and leaves an
\* overview text for that timestamp
C37_Original ==
    /\ v_crash = ""
    /\ (v_pc = "idle" /\ v_timestamps # <<>>) =>
          LET T == v_timestamps[Len(v_timestamps)]
          IN  T \in DOMAIN v_overviews /\ v_overviews[T].is_str

\* C38 as stated: a job identifier occurs at most once in
\* Sampler.timestamp_jobs[t] of the fetching process, for every timestamp t
C38_Original ==
    \A t \in DOMAIN v_timestamp_jobs :
       \A i, k \in 1..Len(v_timestamp_jobs[t]) :
          v_timestamp_jobs[t][i] = v_timestamp_jobs[t][k] => i = k

\* C36: the step in which sample() exits for want of a job list changes none
\* of Sampler.jobs, jobids_running_previous, timestamps, timestamp_jobs and
\* overviews, writes and removes no record, and declares no job finished
C36_ExitBeforeReconciliation ==
    [][pc' = "exited" =>
          /\ jobs' = jobs
          /\ jobids_running_previous' = jobids_running_previous
          /\ timestamps' = timestamps
          /\ timestamp_jobs' = timestamp_jobs
          /\ overviews' = overviews
          /\ completed' = completed
          /\ running' = running
          /\ marker' = marker
          /\ finished_log' = finished_log
          /\ jobids_finished' = jobids_finished]_vars

\* C36 witness: sample() has exited while jobs were tracked and running
C36_Witness ==
    /\ pc = "exited"
    /\ jobs # <<>>
    /\ jobids_running_previous # <<>>
    /\ timestamps # <<>>

\* C39 as stated: what get_effic(mhost_only) returns is what the computation
\* gives for the sample's data and that argument, whatever calls came before
C39_Original ==
    u_out.op = "get_effic(mhost_only)" =>
        u_out.value = get_effic([u_sample EXCEPT !.has_effic = FALSE],
                                u_out.mhost_only).value

\* C40 as stated: after any sequence of First, -5, -1, +1, +5 and Last on a
\* loaded history of n samples current_timestamp is in 0..n-1, and Last
\* followed by +1 is on the last sample
C40_Original ==
    u_out.op \in {"First", "FBwd", "Bwd", "Fwd", "FFwd", "Last"} =>
        /\ u_sample.current_timestamp \in 0..(u_in.nsamples - 1)
        /\ (u_out.op = "Fwd" /\ u_out.previous = "Last")
              => u_sample.current_timestamp = u_in.nsamples - 1
====
